---- MODULE Spec2Model ----
(***************************************************************************)
(* Model of src/ssm.py: the SSM session-log notifier.                      *)
(*                                                                         *)
(* Python text (str) is a sequence of code points, so that the regular     *)
(* expressions and str.strip act on the characters they name.  A JSON      *)
(* value is a tagged record: [t |-> "str", v |-> text], [t |-> "num", ..], *)
(* [t |-> "null"], [t |-> "list", v |-> sequence of values] and            *)
(* [t |-> "obj", v |-> function from keys to values].                      *)
(*                                                                         *)
(* Three specifications share the variables:                               *)
(*   Spec        lambda_handler, one invocation on one event;              *)
(*   TextSpec    the text functions applied to every bounded text;         *)
(*   LookupSpec  get_instance_name on every bounded lookup response.       *)
(***************************************************************************)
EXTENDS Integers, Sequences, FiniteSets, TLC

VARIABLES
    pc,            \* position of the handler / of the function under test
    event,         \* the invocation payload handed to lambda_handler
    logs_data,     \* the decoded batch (line 21)
    idx,           \* index of the record of logEvents being processed
    message_json,  \* the inner payload of the current record (lines 27-29)
    fact,          \* the fields derived for the current record
    calls,         \* trace of collaborator calls made by the invocation
    result,        \* what lambda_handler returned, or that it raised
    raw_line,      \* TextSpec: the input text
    once,          \* TextSpec: the text after one stripping pass
    twice,         \* TextSpec: the text after a second stripping pass
    command,       \* TextSpec: result of extract_clean_command
    username,      \* TextSpec: result of extract_username
    response,      \* LookupSpec: outcome of describe_instances
    name           \* LookupSpec: result of get_instance_name

vars == <<pc, event, logs_data, idx, message_json, fact, calls, result,
          raw_line, once, twice, command, username, response, name>>

handlerVars == <<event, logs_data, idx, fact, calls, result>>
textVars == <<raw_line, once, twice, command, username>>
lookupVars == <<response, name>>

----------------------------------------------------------------------------
(* Bounds *)

MaxLen == 5        \* longest input text of TextSpec
MaxTags == 2       \* longest tag list of a lookup response
MaxRecords == 2    \* most records in a batch

----------------------------------------------------------------------------
(* Characters, as code points *)

ESC == 27
LBRACKET == 91
HASH == 35
AT == 64

\* The characters TextSpec builds its texts from:
\* ESC, space, '#', '.', '@', 'A', '['.
Alphabet == {ESC, 32, HASH, 46, AT, 65, LBRACKET}

\* "unknown", the default of message_json.get('runAsUser', ...) and of .get('id', ...)
unknown == <<117, 110, 107, 110, 111, 119, 110>>
\* "Unknown", the placeholder of get_instance_name and of logStream
Unknown == <<85, 110, 107, 110, 111, 119, 110>>

InRange(c, lo, hi) == lo <= c /\ c <= hi

\* [@-Z\\-_]
IsEscSingle(c) == InRange(c, 64, 90) \/ InRange(c, 92, 95)
\* [0-?]
IsParam(c) == InRange(c, 48, 63)
\* [ -/]
IsIntermediate(c) == InRange(c, 32, 47)
\* [@-~]
IsFinal(c) == InRange(c, 64, 126)
\* [a-zA-Z0-9_-]
IsIdentChar(c) ==
    InRange(c, 97, 122) \/ InRange(c, 65, 90) \/ InRange(c, 48, 57) \/ c = 95 \/ c = 45
\* [a-zA-Z0-9\.-]
IsHostChar(c) ==
    InRange(c, 97, 122) \/ InRange(c, 65, 90) \/ InRange(c, 48, 57) \/ c = 46 \/ c = 45
\* the characters str.strip() removes (str.isspace)
IsSpace(c) ==
    \/ InRange(c, 9, 13) \/ InRange(c, 28, 32) \/ c = 133 \/ c = 160
    \/ c = 5760 \/ InRange(c, 8192, 8202) \/ c = 8232 \/ c = 8233
    \/ c = 8239 \/ c = 8287 \/ c = 12288

----------------------------------------------------------------------------
(* The control-sequence pattern  \x1B(?:[@-Z\\-_]|\[[0-?]*[ -/]*[@-~])      *)

RECURSIVE SkipParams(_, _)
SkipParams(s, j) ==
    IF j <= Len(s) /\ IsParam(s[j]) THEN SkipParams(s, j + 1) ELSE j

RECURSIVE SkipIntermediates(_, _)
SkipIntermediates(s, j) ==
    IF j <= Len(s) /\ IsIntermediate(s[j]) THEN SkipIntermediates(s, j + 1) ELSE j

\* Length of the match of the pattern that starts at position i, 0 if none.
\* The three classes of the CSI branch are disjoint, so the greedy match is
\* the only one.
ansi_escape_match(s, i) ==
    IF i + 1 > Len(s) \/ s[i] # ESC THEN 0
    ELSE IF IsEscSingle(s[i + 1]) THEN 2
    ELSE IF s[i + 1] # LBRACKET THEN 0
    ELSE LET j == SkipIntermediates(s, SkipParams(s, i + 2))
         IN  IF j <= Len(s) /\ IsFinal(s[j]) THEN j - i + 1 ELSE 0

RECURSIVE AnsiSubFrom(_, _)
AnsiSubFrom(s, i) ==
    IF i > Len(s) THEN <<>>
    ELSE LET n == ansi_escape_match(s, i)
         IN  IF n > 0 THEN AnsiSubFrom(s, i + n)
             ELSE <<s[i]>> \o AnsiSubFrom(s, i + 1)

\* ansi_escape.sub('', raw_line): one left-to-right pass that removes every
\* non-overlapping match.
ansi_escape_sub(s) == AnsiSubFrom(s, 1)

----------------------------------------------------------------------------
(* str.strip, str.split('#', 1) *)

RECURSIVE lstrip(_)
lstrip(s) == IF s # <<>> /\ IsSpace(Head(s)) THEN lstrip(Tail(s)) ELSE s

RECURSIVE rstrip(_)
rstrip(s) ==
    IF s # <<>> /\ IsSpace(s[Len(s)]) THEN rstrip(SubSeq(s, 1, Len(s) - 1)) ELSE s

strip(s) == rstrip(lstrip(s))

\* Index of the first c in s at or after i, 0 if none.
RECURSIVE find(_, _, _)
find(s, c, i) ==
    IF i > Len(s) THEN 0 ELSE IF s[i] = c THEN i ELSE find(s, c, i + 1)

\* Index of the last c in s at or before i, 0 if none.
RECURSIVE rfind(_, _, _)
rfind(s, c, i) ==
    IF i < 1 THEN 0 ELSE IF s[i] = c THEN i ELSE rfind(s, c, i - 1)

\* cleaned.split('#', 1)[1], for a text that contains '#'
split_hash_1(s) == SubSeq(s, find(s, HASH, 1) + 1, Len(s))

\* Variant: the text after the last '#' (rsplit).
extract_clean_command_rsplit(raw) ==
    LET cleaned == ansi_escape_sub(raw)
    IN  IF find(cleaned, HASH, 1) > 0
        THEN strip(SubSeq(cleaned, rfind(cleaned, HASH, Len(cleaned)) + 1, Len(cleaned)))
        ELSE strip(cleaned)

extract_clean_command(raw) ==
    LET cleaned == ansi_escape_sub(raw)
    IN  IF find(cleaned, HASH, 1) > 0
        THEN strip(split_hash_1(cleaned))
        ELSE strip(cleaned)

----------------------------------------------------------------------------
(* JSON values and dict access *)

Str(s) == [t |-> "str", v |-> s]
Num(n) == [t |-> "num", v |-> n]
Null == [t |-> "null"]
List(l) == [t |-> "list", v |-> l]
Obj(f) == [t |-> "obj", v |-> f]
EmptyDict == Obj(<<>>)

IsObj(x) == x.t = "obj"

\* d.get(k, default) on a dict d
DictGet(d, k, default) == IF k \in DOMAIN d.v THEN d.v[k] ELSE default

----------------------------------------------------------------------------
(* The actor pattern  ([a-zA-Z0-9_-]+)@([a-zA-Z0-9\.-]+)                     *)

RECURSIVE SkipIdent(_, _)
SkipIdent(s, j) ==
    IF j <= Len(s) /\ IsIdentChar(s[j]) THEN SkipIdent(s, j + 1) ELSE j

\* End of group 1 of the match that starts at position i, 0 if none.  '@'
\* is not an identifier character, so giving characters of the greedy
\* identifier back never produces a match.
username_match(s, i) ==
    LET j == SkipIdent(s, i)
    IN  IF j > i /\ j + 1 <= Len(s) /\ s[j] = AT /\ IsHostChar(s[j + 1])
        THEN j - 1 ELSE 0

\* re.search: the match at the leftmost position that has one;
\* <<start, end of group 1>>, <<0, 0>> if none.
RECURSIVE username_search(_, _)
username_search(s, i) ==
    IF i > Len(s) THEN <<0, 0>>
    ELSE IF username_match(s, i) > 0 THEN <<i, username_match(s, i)>>
    ELSE username_search(s, i + 1)

\* Variant: the pattern is searched in the raw line, before stripping.
extract_username_unstripped(raw, fallback_username) ==
    LET m == username_search(raw, 1)
    IN  IF m[1] > 0 THEN Str(SubSeq(raw, m[1], m[2])) ELSE fallback_username

extract_username(raw, fallback_username) ==
    LET cleaned == ansi_escape_sub(raw)
        m == username_search(cleaned, 1)
    IN  IF m[1] > 0 THEN Str(SubSeq(cleaned, m[1], m[2])) ELSE fallback_username

----------------------------------------------------------------------------
(* get_instance_name (lines 78-87) *)

\* "Name", the tag key that supplies the label
NameKey == <<78, 97, 109, 101>>
\* "Env", some other tag key
EnvKey == <<69, 110, 118>>
\* "web" and "db", tag values
Web == <<119, 101, 98>>
Db == <<100, 98>>

\* A tag is a dict with an optional Key and an optional Value.
SampleTags ==
    { [Key |-> NameKey, Value |-> Web], [Key |-> NameKey, Value |-> Db],
      [Key |-> EnvKey, Value |-> Web], [Key |-> NameKey], [Value |-> Web] }

SeqsUpTo(S, n) == UNION { [1..k -> S] : k \in 0..n }

TagLists == SeqsUpTo(SampleTags, MaxTags)

\* An instance is a dict with an optional Tags list.
SampleInstances == { [InstanceId |-> 1] } \cup { [InstanceId |-> 1, Tags |-> tl] : tl \in TagLists }

\* A reservation is a dict with an optional Instances list; a second
\* instance, when there is one, carries a Name tag.
SampleReservations ==
    { [ReservationId |-> 1] }
    \cup { [ReservationId |-> 1, Instances |-> <<>>] }
    \cup { [ReservationId |-> 1, Instances |-> <<i>>] : i \in SampleInstances }
    \cup { [ReservationId |-> 1,
            Instances |-> <<i, [InstanceId |-> 2, Tags |-> <<[Key |-> NameKey, Value |-> Db]>>]>>]
           : i \in { [InstanceId |-> 1], [InstanceId |-> 1, Tags |-> <<>>] } }

\* A reservation whose instance carries a Name tag, used as a second reservation.
OtherReservation ==
    [ReservationId |-> 2,
     Instances |-> <<[InstanceId |-> 3, Tags |-> <<[Key |-> NameKey, Value |-> Db]>>]>>]

\* Outcomes of ec2_client.describe_instances: the call raises, or it returns
\* a dict with an optional Reservations list.
LookupResponses ==
    { [raises |-> TRUE] }
    \cup { [raises |-> FALSE, value |-> [ResponseMetadata |-> 1]] }
    \cup { [raises |-> FALSE, value |-> [Reservations |-> <<>>]] }
    \cup { [raises |-> FALSE, value |-> [Reservations |-> <<r>>]] : r \in SampleReservations }
    \cup { [raises |-> FALSE, value |-> [Reservations |-> <<r, OtherReservation>>]]
           : r \in SampleReservations }

Returned(v) == [exc |-> "none", returned |-> TRUE, value |-> v]
FellThrough == [exc |-> "none", returned |-> FALSE]
Raised(e) == [exc |-> e, returned |-> FALSE]

\* for tag in tags: if tag['Key'] == 'Name': return tag['Value']
RECURSIVE tag_loop(_, _)
tag_loop(tags, i) ==
    IF i > Len(tags) THEN FellThrough
    ELSE IF "Key" \notin DOMAIN tags[i] THEN Raised("KeyError")
    ELSE IF tags[i].Key # NameKey THEN tag_loop(tags, i + 1)
    ELSE IF "Value" \notin DOMAIN tags[i] THEN Raised("KeyError")
    ELSE Returned(tags[i].Value)

\* The body of the try block (lines 80-84).
lookup_try_body(resp) ==
    IF resp.raises THEN Raised("ClientError")
    ELSE IF "Reservations" \notin DOMAIN resp.value THEN Raised("KeyError")
    ELSE LET reservations == resp.value.Reservations
         IN  IF Len(reservations) = 0 THEN Raised("IndexError")
             ELSE IF "Instances" \notin DOMAIN reservations[1] THEN Raised("KeyError")
             ELSE IF Len(reservations[1].Instances) = 0 THEN Raised("IndexError")
             ELSE LET inst == reservations[1].Instances[1]
                      tags == IF "Tags" \in DOMAIN inst THEN inst.Tags ELSE <<>>
                  IN  tag_loop(tags, 1)

\* Variant: the handler catches only the collaborator's own error
\* (except ClientError), so a KeyError or IndexError propagates.
get_instance_name_narrow_except(resp) ==
    LET b == lookup_try_body(resp)
    IN  IF b.returned THEN [raised |-> FALSE, value |-> b.value]
        ELSE IF b.exc \in {"none", "ClientError"} THEN [raised |-> FALSE, value |-> Unknown]
        ELSE [raised |-> TRUE, value |-> Unknown]

\* get_instance_name, given the outcome of the lookup call: except Exception
\* absorbs every error, and line 87 returns "Unknown".
get_instance_name(resp) ==
    LET b == lookup_try_body(resp)
    IN  IF b.returned THEN [raised |-> FALSE, value |-> b.value]
        ELSE [raised |-> FALSE, value |-> Unknown]

----------------------------------------------------------------------------
(* The inputs of lambda_handler *)

\* "user-1: %connect\nssh> shell-user@host-7 # ls -la"
ScenarioLine ==
    <<117, 115, 101, 114, 45, 49, 58, 32, 37, 99, 111, 110, 110, 101, 99, 116, 10,
      115, 115, 104, 62, 32, 115, 104, 101, 108, 108, 45, 117, 115, 101, 114, 64,
      104, 111, 115, 116, 45, 55, 32, 35, 32, 108, 115, 32, 45, 108, 97>>
\* "i-0123"
ScenarioId == <<105, 45, 48, 49, 50, 51>>
\* "ssm-user"
SsmUser == <<115, 115, 109, 45, 117, 115, 101, 114>>
\* "stream-1"
Stream1 == <<115, 116, 114, 101, 97, 109, 45, 49>>

\* A str holding JSON text, characterised by what json.loads does on it:
\* it raises JSONDecodeError (ok = FALSE) or yields value.
JsonText(ok, value) == [t |-> "jsontext", ok |-> ok, value |-> value]

ScenarioPayload ==
    Obj([sessionData |-> List(<<Str(ScenarioLine)>>), target |-> Obj([id |-> Str(ScenarioId)])])

\* Inner payloads: well-formed ones and the malformed shapes a message can
\* have (not an object, fields missing, target not an object, a session
\* line that is not text).
SampleMessages ==
    { JsonText(FALSE, Null),
      JsonText(TRUE, EmptyDict),
      JsonText(TRUE, ScenarioPayload),
      JsonText(TRUE, Obj([sessionData |-> List(<<>>), runAsUser |-> Str(SsmUser),
                          target |-> Obj(<<>>)])),
      JsonText(TRUE, Num(42)),
      JsonText(TRUE, Obj([target |-> Str(ScenarioId)])),
      JsonText(TRUE, Obj([sessionData |-> List(<<Num(1)>>)])) }

\* The timestamp of the sample records, 1700000000000 ms, held in seconds
\* (the handler divides it by 1000; the model does not render it).
SampleSeconds == Num(1700000000)

\* A record of logEvents: the timestamp and message the log transport
\* delivers, and one record without a message.
SampleRecords ==
    { Obj([timestamp |-> SampleSeconds, message |-> m]) : m \in SampleMessages }
    \cup { Obj([timestamp |-> SampleSeconds]) }

Batches == SeqsUpTo(SampleRecords, MaxRecords)

\* What the decoded envelope can be: a batch with or without logStream, an
\* object without logEvents, logEvents that is not an array, not an object.
SampleLogsData ==
    { Obj([logEvents |-> List(b), logStream |-> Str(Stream1)]) : b \in Batches }
    \cup { Obj([logEvents |-> List(<<r>>)]) : r \in SampleRecords }
    \cup { Obj([logStream |-> Str(Stream1)]), Obj([logEvents |-> Num(5)]), List(<<Num(1)>>) }

\* event["awslogs"]["data"], characterised by what each decoding stage does
\* on it: base64, gzip, json say whether the stage accepts its input, value is
\* what json.loads yields.
Data(b, g, j, value) == [base64 |-> b, gzip |-> g, json |-> j, value |-> value]

Events ==
    { [other |-> 1] }
    \cup { [awslogs |-> [data |-> Data(FALSE, FALSE, FALSE, Null)]],
           [awslogs |-> [data |-> Data(TRUE, FALSE, FALSE, Null)]],
           [awslogs |-> [data |-> Data(TRUE, TRUE, FALSE, Null)]] }
    \cup { [awslogs |-> [data |-> Data(TRUE, TRUE, TRUE, d)]] : d \in SampleLogsData }

\* The lookup outcomes an invocation draws from.
HandlerLookupResponses ==
    { [raises |-> TRUE],
      [raises |-> FALSE, value |-> [Reservations |-> <<>>]],
      [raises |-> FALSE, value |-> [Reservations |-> <<[ReservationId |-> 1,
            Instances |-> <<[InstanceId |-> 1]>>]>>]],
      [raises |-> FALSE, value |-> [Reservations |-> <<[ReservationId |-> 1,
            Instances |-> <<[InstanceId |-> 1,
                             Tags |-> <<[Key |-> NameKey, Value |-> Web]>>]>>]>>]] }

----------------------------------------------------------------------------
(* lambda_handler (lines 16-54) *)

NoResult == [kind |-> "none", statusCode |-> 0, exc |-> "none", step |-> "none"]
Return(code) == [kind |-> "returned", statusCode |-> code, exc |-> "none", step |-> "none"]
Raise(e, step) == [kind |-> "raised", statusCode |-> 0, exc |-> e, step |-> step]

NoFact ==
    [instance_id |-> Null, instance_name |-> <<>>, username |-> Null,
     cleaned_command |-> <<>>, log_stream |-> Null]

\* Lines 18-21: the exception the decoding raises, "none" if it yields logs_data.
decode(ev) ==
    IF "awslogs" \notin DOMAIN ev THEN "KeyError"
    ELSE IF ~ev.awslogs.data.base64 THEN "binascii.Error"
    ELSE IF ~ev.awslogs.data.gzip THEN "BadGzipFile"
    ELSE IF ~ev.awslogs.data.json THEN "JSONDecodeError"
    ELSE "none"

\* Variant: except ValueError, which KeyError and BadGzipFile are not.
decode_caught_value_error(e) == e \in {"binascii.Error", "JSONDecodeError"}

\* Line 22: except Exception catches whatever the decoding raises.
decode_caught(e) == TRUE

\* Line 25: the exception logs_data["logEvents"] and the iteration raise.
log_events_exc(ld) ==
    IF ld.t = "list" THEN "TypeError"
    ELSE IF "logEvents" \notin DOMAIN ld.v THEN "KeyError"
    ELSE IF ld.v.logEvents.t # "list" THEN "TypeError"
    ELSE "none"

\* Truth value of a JSON value (if session_data).
Truthy(x) ==
    CASE x.t = "null" -> FALSE
      [] x.t = "num" -> x.v # 0
      [] x.t = "obj" -> DOMAIN x.v # {}
      [] OTHER -> Len(x.v) > 0

\* The exception session_data[-1] raises on a truthy value: a list and a str
\* have a last element, a dict has no key -1, a number has no subscript.
last_exc(x) ==
    CASE x.t \in {"list", "str"} -> "none"
      [] x.t = "obj" -> "KeyError"
      [] OTHER -> "TypeError"

\* session_data[-1] of a list or a str (the last character, as a str).
last(x) == IF x.t = "list" THEN x.v[Len(x.v)] ELSE Str(<<x.v[Len(x.v)]>>)

\* Lines 26-43: the exception the parsing of one record raises ("none" if it
\* raises nothing), the inner payload and the derived fields.
parse_record(log_event, ld) ==
    LET text == DictGet(log_event, "message", JsonText(TRUE, EmptyDict))
        mj == IF text.ok THEN text.value ELSE EmptyDict
        session_data == DictGet(mj, "sessionData", List(<<>>))
        raw_command_line == IF Truthy(session_data) THEN last(session_data) ELSE Str(<<>>)
        tgt == DictGet(mj, "target", EmptyDict)
        failed(e) == [exc |-> e, message_json |-> mj, fact |-> NoFact]
    IN  IF ~IsObj(mj) THEN failed("AttributeError")
        ELSE IF Truthy(session_data) /\ last_exc(session_data) # "none"
        THEN failed(last_exc(session_data))
        ELSE IF raw_command_line.t # "str" THEN failed("TypeError")
        ELSE IF "timestamp" \notin DOMAIN log_event.v THEN failed("KeyError")
        ELSE IF ~IsObj(tgt) THEN failed("AttributeError")
        ELSE [exc |-> "none", message_json |-> mj,
              fact |-> [instance_id |-> DictGet(tgt, "id", Str(unknown)),
                        instance_name |-> <<>>,
                        username |-> extract_username(raw_command_line.v,
                                         DictGet(mj, "runAsUser", Str(unknown))),
                        cleaned_command |-> extract_clean_command(raw_command_line.v),
                        log_stream |-> DictGet(ld, "logStream", Str(Unknown))]]

\* Variant: send_email wrapped in try/except, so a failure is swallowed.
send_html_email_swallowed(ok) == "none"

\* Lines 160-168: send_html_email lets the delivery collaborator's error
\* propagate.
send_html_email(ok) == IF ok THEN "none" ELSE "ClientError"

Records == logs_data.v.logEvents.v

Init ==
    /\ event \in Events
    /\ pc = "start"
    /\ logs_data = Null
    /\ idx = 0
    /\ message_json = EmptyDict
    /\ fact = NoFact
    /\ calls = <<>>
    /\ result = NoResult
    /\ raw_line = <<>> /\ once = <<>> /\ twice = <<>> /\ command = <<>>
    /\ username = Null
    /\ response = [raises |-> TRUE]
    /\ name = [raised |-> FALSE, value |-> <<>>]

\* Lines 17-23.
Decode ==
    /\ pc = "start"
    /\ LET e == decode(event)
       IN  IF e = "none"
           THEN /\ logs_data' = event.awslogs.data.value
                /\ pc' = "for"
                /\ result' = result
           ELSE IF decode_caught(e)
           THEN /\ result' = Return(400)
                /\ pc' = "returned"
                /\ logs_data' = logs_data
           ELSE /\ result' = Raise(e, "decode")
                /\ pc' = "raised"
                /\ logs_data' = logs_data
    /\ UNCHANGED <<event, idx, message_json, fact, calls, textVars, lookupVars>>

\* Line 25, when logs_data has no logEvents array to iterate.
ForRaise ==
    /\ pc = "for"
    /\ log_events_exc(logs_data) # "none"
    /\ result' = Raise(log_events_exc(logs_data), "for")
    /\ pc' = "raised"
    /\ UNCHANGED <<event, logs_data, idx, message_json, fact, calls, textVars, lookupVars>>

\* Line 25 and lines 26-43: the loop takes the next record and parses it.
ParseRecord ==
    /\ pc = "for"
    /\ log_events_exc(logs_data) = "none"
    /\ idx < Len(Records)
    /\ idx' = idx + 1
    /\ LET p == parse_record(Records[idx + 1], logs_data)
       IN  /\ message_json' = p.message_json
           /\ fact' = p.fact
           /\ IF p.exc = "none"
              THEN pc' = "lookup" /\ result' = result
              ELSE pc' = "raised" /\ result' = Raise(p.exc, "parse")
    /\ UNCHANGED <<event, logs_data, calls, textVars, lookupVars>>

\* Line 44: one call of the lookup collaborator, whatever it answers.
Lookup ==
    /\ pc = "lookup"
    /\ \E resp \in HandlerLookupResponses :
         LET r == get_instance_name(resp)
         IN  /\ calls' = Append(calls, [op |-> "describe_instances", rec |-> idx,
                                        ok |-> ~resp.raises, message |-> NoFact])
             /\ IF r.raised
                THEN pc' = "raised" /\ result' = Raise("Exception", "lookup") /\ fact' = fact
                ELSE /\ pc' = "send"
                     /\ result' = result
                     /\ fact' = [fact EXCEPT !.instance_name = r.value]
    /\ UNCHANGED <<event, logs_data, idx, message_json, textVars, lookupVars>>

\* Lines 45-52: the alert is rendered from the fields and dispatched once;
\* the delivery collaborator accepts it or fails.
Dispatch ==
    /\ pc = "send"
    /\ \E ok \in BOOLEAN :
         /\ calls' = Append(calls, [op |-> "send_email", rec |-> idx, ok |-> ok,
                                    message |-> fact])
         /\ IF send_html_email(ok) = "none"
            THEN pc' = "for" /\ result' = result
            ELSE pc' = "raised" /\ result' = Raise(send_html_email(ok), "send")
    /\ UNCHANGED <<event, logs_data, idx, message_json, fact, textVars, lookupVars>>

\* Line 54, once the loop has consumed every record.
Return200 ==
    /\ pc = "for"
    /\ log_events_exc(logs_data) = "none"
    /\ idx = Len(Records)
    /\ result' = Return(200)
    /\ pc' = "returned"
    /\ UNCHANGED <<event, logs_data, idx, message_json, fact, calls, textVars, lookupVars>>

Next == Decode \/ ForRaise \/ ParseRecord \/ Lookup \/ Dispatch \/ Return200

Spec == Init /\ [][Next]_vars

----------------------------------------------------------------------------
(* The text functions on every text up to MaxLen *)

Texts == SeqsUpTo(Alphabet, MaxLen)

\* Inner payloads without and with runAsUser.
SamplePayloads == { EmptyDict, Obj([runAsUser |-> Str(SsmUser)]) }

TextInit ==
    /\ raw_line \in Texts
    /\ pc = "text"
    /\ once = <<>> /\ twice = <<>> /\ command = <<>>
    /\ username = Null
    /\ message_json = EmptyDict
    /\ event = [other |-> 1]
    /\ logs_data = Null
    /\ idx = 0
    /\ fact = NoFact
    /\ calls = <<>>
    /\ result = NoResult
    /\ response = [raises |-> TRUE]
    /\ name = [raised |-> FALSE, value |-> <<>>]

\* Lines 57-58 (and 69-70): one stripping pass over the raw line.
StripOnce ==
    /\ pc = "text"
    /\ once' = ansi_escape_sub(raw_line)
    /\ pc' = "stripped"
    /\ UNCHANGED <<raw_line, twice, command, username, message_json, handlerVars, lookupVars>>

\* The same pass applied to its own output.
StripTwice ==
    /\ pc = "stripped"
    /\ twice' = ansi_escape_sub(once)
    /\ pc' = "restripped"
    /\ UNCHANGED <<raw_line, once, command, username, message_json, handlerVars, lookupVars>>

\* Line 33.
CallExtractCleanCommand ==
    /\ pc = "text"
    /\ command' = extract_clean_command(raw_line)
    /\ pc' = "command"
    /\ UNCHANGED <<raw_line, once, twice, username, message_json, handlerVars, lookupVars>>

\* Line 35.
CallExtractUsername ==
    /\ pc = "text"
    /\ \E mj \in SamplePayloads :
         /\ message_json' = mj
         /\ username' = extract_username(raw_line, DictGet(mj, "runAsUser", Str(unknown)))
    /\ pc' = "username"
    /\ UNCHANGED <<raw_line, once, twice, command, handlerVars, lookupVars>>

TextNext == StripOnce \/ StripTwice \/ CallExtractCleanCommand \/ CallExtractUsername

TextSpec == TextInit /\ [][TextNext]_vars

----------------------------------------------------------------------------
(* get_instance_name on every lookup outcome *)

LookupInit ==
    /\ response \in LookupResponses
    /\ pc = "lookup_call"
    /\ name = [raised |-> FALSE, value |-> <<>>]
    /\ raw_line = <<>> /\ once = <<>> /\ twice = <<>> /\ command = <<>>
    /\ username = Null
    /\ message_json = EmptyDict
    /\ event = [other |-> 1]
    /\ logs_data = Null
    /\ idx = 0
    /\ fact = NoFact
    /\ calls = <<>>
    /\ result = NoResult

\* Lines 78-87.
CallGetInstanceName ==
    /\ pc = "lookup_call"
    /\ name' = get_instance_name(response)
    /\ pc' = "looked_up"
    /\ UNCHANGED <<response, message_json, handlerVars, textVars>>

LookupNext == CallGetInstanceName

LookupSpec == LookupInit /\ [][LookupNext]_vars

----------------------------------------------------------------------------
(* Properties of lambda_handler, checked under Spec *)

IsTerminal == pc \in {"returned", "raised"}

\* The envelope reaches json.loads and yields a JSON value.
Decodes == "awslogs" \in DOMAIN event /\ event.awslogs.data.base64
           /\ event.awslogs.data.gzip /\ event.awslogs.data.json

\* The envelope has a payload that base64, gzip or json rejects.
Undecodable == "awslogs" \in DOMAIN event /\ ~Decodes

DecodedValue == event.awslogs.data.value

\* The decoded JSON is an object with a logEvents array.
HasLogEvents ==
    /\ Decodes
    /\ DecodedValue.t = "obj"
    /\ "logEvents" \in DOMAIN DecodedValue.v
    /\ DecodedValue.v.logEvents.t = "list"

NumRecords == Len(DecodedValue.v.logEvents.v)

SendCalls == { k \in 1..Len(calls) : calls[k].op = "send_email" }

\* C1: when the envelope payload cannot be decoded (invalid base64, invalid
\* gzip stream, invalid JSON) the handler returns statusCode 400 and calls
\* neither the delivery nor the lookup collaborator.
C1_UndecodableReturns400 ==
    Undecodable =>
        /\ calls = <<>>
        /\ pc # "start" => (pc = "returned" /\ result = Return(400))

\* A payload that base64 accepts and gzip rejects has been answered with 400.
C1_Witness ==
    /\ Undecodable
    /\ event.awslogs.data.base64 /\ ~event.awslogs.data.gzip
    /\ pc = "returned"
    /\ result.statusCode = 400

\* C2: when the envelope decodes to valid JSON without a top-level
\* logEvents array, the handler returns statusCode 400 and dispatches no
\* notification.
C2_MissingLogEventsReturns400 ==
    (Decodes /\ ~HasLogEvents) =>
        /\ SendCalls = {}
        /\ IsTerminal => (pc = "returned" /\ result = Return(400))

\* C3: when the dispatch for record i fails, every later record of the
\* batch still gets its dispatch attempt.
C3_LaterRecordsStillDispatched ==
    (HasLogEvents /\ IsTerminal) =>
        \A k \in SendCalls :
            ~calls[k].ok =>
                \A j \in (calls[k].rec + 1)..NumRecords :
                    \E m \in SendCalls : calls[m].rec = j

\* The inner payload of the record being processed, as json.loads yields it;
\* Null when the message is not JSON text.
CurrentPayload ==
    LET r == DecodedValue.v.logEvents.v[idx]
    IN  IF "message" \notin DOMAIN r.v THEN EmptyDict
        ELSE IF r.v.message.ok THEN r.v.message.value ELSE Null

PayloadHas(k) == CurrentPayload.t = "obj" /\ k \in DOMAIN CurrentPayload.v

\* The payload has a target that is an object, so the target.id path holds.
TargetPathHolds == PayloadHas("target") /\ CurrentPayload.v.target.t = "obj"

\* C4: whatever the message payload of a record is, parsing the record does
\* not abort; the record reaches the dispatch step with the placeholder for
\* every field its payload does not supply (target id "unknown", actor
\* "unknown", empty command).
C4_ParsingNeverAborts ==
    /\ result.step # "parse"
    /\ (HasLogEvents /\ pc = "send") =>
        /\ ~TargetPathHolds => fact.instance_id = Str(unknown)
        /\ ~PayloadHas("sessionData") => fact.cleaned_command = <<>>
        /\ (~PayloadHas("sessionData") /\ ~PayloadHas("runAsUser")) =>
               fact.username = Str(unknown)

\* The k-th collaborator call of a batch processed in arrival order: the
\* lookup of record (k+1)/2 for odd k, the dispatch of record k/2 for even k.
ExpectedOp(k) == IF k % 2 = 1 THEN "describe_instances" ELSE "send_email"
ExpectedRec(k) == (k + 1) \div 2

\* C5: for a decoded batch of n records in which no collaborator call
\* fails, the calls are lookup 1, dispatch 1, lookup 2, dispatch 2, ... with
\* none repeated, and the handler ends by returning statusCode 200 after
\* exactly one lookup and one dispatch per record.
C5_OncePerRecordInOrder ==
    (HasLogEvents /\ \A k \in 1..Len(calls) : calls[k].ok) =>
        /\ Len(calls) <= 2 * NumRecords
        /\ \A k \in 1..Len(calls) :
              calls[k].op = ExpectedOp(k) /\ calls[k].rec = ExpectedRec(k)
        /\ IsTerminal =>
              /\ pc = "returned" /\ result = Return(200)
              /\ Len(calls) = 2 * NumRecords

\* C10: the handler returns statusCode 200 only after the batch decoded
\* and every record of logEvents had its dispatch call made and completed
\* without error.
C10_200OnlyAfterEveryDispatch ==
    (result.kind = "returned" /\ result.statusCode = 200) =>
        /\ HasLogEvents
        /\ \A i \in 1..NumRecords :
              \E k \in SendCalls : calls[k].rec = i /\ calls[k].ok
        /\ \A k \in SendCalls : calls[k].ok

\* A batch of at least two records has been answered with 200.
C10_Witness ==
    /\ result.kind = "returned" /\ result.statusCode = 200
    /\ HasLogEvents /\ NumRecords >= 2
    /\ Cardinality(SendCalls) = NumRecords

----------------------------------------------------------------------------
(* Properties of get_instance_name, checked under LookupSpec *)

\* The tags of the first instance of the first reservation, <<>> when the
\* response has no such instance or the instance has no Tags.
FirstInstanceTags ==
    IF response.raises \/ "Reservations" \notin DOMAIN response.value THEN <<>>
    ELSE LET rs == response.value.Reservations
         IN  IF rs = <<>> \/ "Instances" \notin DOMAIN rs[1] THEN <<>>
             ELSE IF rs[1].Instances = <<>> THEN <<>>
             ELSE IF "Tags" \notin DOMAIN rs[1].Instances[1] THEN <<>>
             ELSE rs[1].Instances[1].Tags

NameTags ==
    { i \in 1..Len(FirstInstanceTags) :
        "Key" \in DOMAIN FirstInstanceTags[i] /\ FirstInstanceTags[i].Key = NameKey }

WellFormedTags ==
    \A i \in 1..Len(FirstInstanceTags) : DOMAIN FirstInstanceTags[i] = {"Key", "Value"}

\* C6: get_instance_name never propagates an error; it returns "Unknown"
\* unless the first instance of the first reservation has a tag with key
\* "Name", and then it returns that tag's value.
C6_LookupNeverPropagates ==
    pc = "looked_up" =>
        /\ ~name.raised
        /\ name.value # Unknown =>
              \E i \in NameTags :
                  "Value" \in DOMAIN FirstInstanceTags[i]
                  /\ name.value = FirstInstanceTags[i].Value
        /\ (WellFormedTags /\ NameTags # {}) =>
              \E i \in NameTags : name.value = FirstInstanceTags[i].Value

\* The label came from a Name tag that is not the first tag.
C6_Witness ==
    /\ pc = "looked_up"
    /\ name.value = Web
    /\ Len(FirstInstanceTags) = 2 /\ NameTags = {2}

----------------------------------------------------------------------------
(* Properties of the text functions, checked under TextSpec *)

\* C7: control-sequence stripping is idempotent: stripping the stripped
\* text again leaves it unchanged.
C7_StripIdempotent == pc = "restripped" => twice = once

Min(S) == CHOOSE i \in S : \A j \in S : i <= j

\* r is s without its leading and trailing whitespace.
IsTrimOf(r, s) ==
    \E lo \in 1..(Len(s) + 1) : \E hi \in 0..Len(s) :
        /\ r = SubSeq(s, lo, hi)
        /\ \A k \in 1..(lo - 1) : IsSpace(s[k])
        /\ \A k \in (hi + 1)..Len(s) : IsSpace(s[k])
        /\ r # <<>> => (~IsSpace(r[1]) /\ ~IsSpace(r[Len(r)]))

Stripped == ansi_escape_sub(raw_line)

HashPositions == { i \in 1..Len(Stripped) : Stripped[i] = HASH }

\* C8: if the stripped text contains '#', extract_clean_command returns the
\* text after the first '#' without its leading and trailing whitespace
\* (later '#' kept); otherwise the whole stripped text so trimmed.
C8_CleanCommand ==
    pc = "command" =>
        IF HashPositions # {}
        THEN IsTrimOf(command, SubSeq(Stripped, Min(HashPositions) + 1, Len(Stripped)))
        ELSE IsTrimOf(command, Stripped)

\* Two '#' in the stripped text: the result keeps the later one and has lost
\* whitespace.
C8_Witness ==
    /\ pc = "command"
    /\ Cardinality(HashPositions) = 2
    /\ \E i \in 1..Len(command) : command[i] = HASH
    /\ Len(command) + Min(HashPositions) < Len(Stripped)

\* The <<start, end of identifier>> of every substring identifier@host of
\* the stripped text.
ActorMatches ==
    { m \in (1..Len(Stripped)) \X (1..Len(Stripped)) :
        /\ m[1] <= m[2]
        /\ \A x \in m[1]..m[2] : IsIdentChar(Stripped[x])
        /\ m[2] + 2 <= Len(Stripped)
        /\ Stripped[m[2] + 1] = AT
        /\ IsHostChar(Stripped[m[2] + 2]) }

LeftmostMatch == CHOOSE m \in ActorMatches : \A o \in ActorMatches : m[1] <= o[1]

\* C9: if the stripped text contains identifier@host, the actor is the
\* identifier of the leftmost such match; otherwise it is the payload's
\* runAsUser if present, and "unknown" if not.
C9_Actor ==
    pc = "username" =>
        IF ActorMatches # {}
        THEN username = Str(SubSeq(Stripped, LeftmostMatch[1], LeftmostMatch[2]))
        ELSE IF "runAsUser" \in DOMAIN message_json.v
             THEN username = message_json.v.runAsUser
             ELSE username = Str(unknown)

\* The actor was found in a text from which a control sequence was removed.
C9_Witness ==
    /\ pc = "username"
    /\ ActorMatches # {}
    /\ Len(Stripped) < Len(raw_line)
    /\ username = Str(<<65>>)

====
